---- MODULE Spec2Model ----
(***************************************************************************)
(* Collaborative canvas: the canvas engine (add / undo / redo / clear on   *)
(* an immutable CanvasState), the per-client drawing hook                  *)
(* (useDrawingState), the pointer handlers of DrawingCanvas, the wiring of *)
(* CollaborativeCanvas and the broadcast / presence handlers of            *)
(* useCanvasSync, for a room of two clients over an at-least-once,         *)
(* unordered transport.                                                    *)
(*                                                                         *)
(* Timestamps (Date.now()) are not modelled: no handler reads them.        *)
(***************************************************************************)
EXTENDS Integers, Sequences, FiniteSets, TLC

\* ---------------------------------------------------------------- bounds
MaxStrokes == 1    \* strokes one client starts (pointer-downs)
MaxPoints  == 2    \* points recorded into one in-progress stroke
MaxHistory == 2    \* |undoStack| + |redoStack| up to which a stroke is added remotely
MaxOps     == 3    \* |undoStack| + |redoStack| up to which SpecEngine adds a stroke
MaxLocalStrokes == 2  \* strokes the client of SpecLocal starts (pointer-downs)

\* ------------------------------------------------------ program constants
Threshold    == 2  \* minimum distance between recorded points
Pressure     == 5  \* getPoint's pressure 0.5, in tenths
StrokeWidth0 == 4  \* initial settings.strokeWidth

Clients == {"A", "B"}
Tools   == {"brush", "eraser"}
Color0  == "#1a1a2e"            \* DEFAULT_COLORS[0]
PresenceColor == "hsl(200, 90%, 50%)"
USER_COLORS == << "hsl(200, 90%, 50%)", "hsl(340, 80%, 55%)", "hsl(160, 70%, 45%)",
                  "hsl(45, 90%, 55%)", "hsl(280, 70%, 60%)", "hsl(20, 85%, 55%)" >>

\* ----------------------------------------------------------------- data
Pt(x, y) == [x |-> x, y |-> y, pressure |-> Pressure]
Origin   == [x |-> 0, y |-> 0]
PointInputs == {Pt(0, 0), Pt(2, 0)}
Null     == [null |-> TRUE]
NoData   == [none |-> TRUE]

DistSq(p, q) == (p.x - q.x) * (p.x - q.x) + (p.y - q.y) * (p.y - q.y)
\* Math.sqrt(dx*dx + dy*dy) < 2
TooClose(p, q) == DistSq(p, q) < Threshold * Threshold

VARIABLES
  canvasState,    \* useDrawingState: canvasState, per client
  currentStroke,  \* useDrawingState: currentStroke (latest value set)
  seenStroke,     \* currentStroke as captured by continueStroke / endStroke at the last render
  settings,       \* useDrawingState: settings
  users,          \* useDrawingState: users (the roster)
  hookDrawing,    \* useDrawingState: isDrawingRef
  dcDrawing,      \* DrawingCanvas: isDrawingRef
  lastPoint,      \* DrawingCanvas: lastPointRef
  pendingStroke,  \* useCanvasSync: pendingStrokeRef
  isConnected,    \* useCanvasSync: isConnected
  connectionError,\* useCanvasSync: connectionError
  idCounter,      \* number of stroke ids generated by each client
  net,            \* broadcast messages published to the room
  presence,       \* presence events emitted by the transport
  last,           \* SpecEngine: the engine call made last and the state it was given
  channelRef,     \* useCanvasSync: channelRef (the channel instance, or null)
  liveChannels    \* the channel instances each client has subscribed and not unsubscribed

vars == << canvasState, currentStroke, seenStroke, settings, users, hookDrawing,
           dcDrawing, lastPoint, pendingStroke, isConnected, connectionError,
           idCounter, net, presence, last, channelRef, liveChannels >>

\* ------------------------------------------------------- canvas engine
createInitialState == [strokes |-> <<>>, undoStack |-> <<>>, redoStack |-> <<>>]

generateStrokeId(c) == << c, idCounter[c] + 1 >>

\* addStroke that keeps the redo stack
addStrokeKeepRedo(state, stroke, userId) ==
  [strokes   |-> Append(state.strokes, stroke),
   undoStack |-> Append(state.undoStack, [type |-> "add", stroke |-> stroke, userId |-> userId]),
   redoStack |-> state.redoStack]

addStroke(state, stroke, userId) ==
  [strokes   |-> Append(state.strokes, stroke),
   undoStack |-> Append(state.undoStack, [type |-> "add", stroke |-> stroke, userId |-> userId]),
   redoStack |-> <<>>]

\* undoOperation that resets to the initial state when there is nothing to undo
undoOperationResets(state, userId) ==
  IF Len(state.undoStack) = 0 THEN createInitialState
  ELSE LET lastOperation == state.undoStack[Len(state.undoStack)]
       IN [strokes   |-> SelectSeq(state.strokes, LAMBDA s : s.id # lastOperation.stroke.id),
           undoStack |-> SubSeq(state.undoStack, 1, Len(state.undoStack) - 1),
           redoStack |-> Append(state.redoStack,
                           [type |-> "undo", stroke |-> lastOperation.stroke, userId |-> userId])]

\* undoOperation that removes the stroke only when the caller added it (per-author undo)
undoOperationOwn(state, userId) ==
  IF Len(state.undoStack) = 0 THEN state
  ELSE LET lastOperation == state.undoStack[Len(state.undoStack)]
       IN [strokes   |-> IF lastOperation.userId = userId
                         THEN SelectSeq(state.strokes, LAMBDA s : s.id # lastOperation.stroke.id)
                         ELSE state.strokes,
           undoStack |-> SubSeq(state.undoStack, 1, Len(state.undoStack) - 1),
           redoStack |-> Append(state.redoStack,
                           [type |-> "undo", stroke |-> lastOperation.stroke, userId |-> userId])]

undoOperation(state, userId) ==
  IF Len(state.undoStack) = 0 THEN state
  ELSE LET lastOperation == state.undoStack[Len(state.undoStack)]
           newUndoStack  == SubSeq(state.undoStack, 1, Len(state.undoStack) - 1)
           newStrokes    == IF lastOperation.type = "add" /\ lastOperation.stroke # Null
                            THEN SelectSeq(state.strokes, LAMBDA s : s.id # lastOperation.stroke.id)
                            ELSE state.strokes
           undoOp        == [type |-> "undo", stroke |-> lastOperation.stroke, userId |-> userId]
       IN [strokes   |-> newStrokes,
           undoStack |-> newUndoStack,
           redoStack |-> Append(state.redoStack, undoOp)]

\* redoOperation that re-applies the stroke and keeps the entry on the redo stack
redoOperationKeepsEntry(state, userId) ==
  IF Len(state.redoStack) = 0 THEN state
  ELSE LET lastRedo == state.redoStack[Len(state.redoStack)]
       IN [strokes   |-> Append(state.strokes, lastRedo.stroke),
           undoStack |-> Append(state.undoStack,
                           [type |-> "add", stroke |-> lastRedo.stroke, userId |-> userId]),
           redoStack |-> state.redoStack]

redoOperation(state, userId) ==
  IF Len(state.redoStack) = 0 THEN state
  ELSE LET lastRedo     == state.redoStack[Len(state.redoStack)]
           newRedoStack == SubSeq(state.redoStack, 1, Len(state.redoStack) - 1)
       IN IF lastRedo.stroke # Null
          THEN [strokes   |-> Append(state.strokes, lastRedo.stroke),
                undoStack |-> Append(state.undoStack,
                                [type |-> "add", stroke |-> lastRedo.stroke, userId |-> userId]),
                redoStack |-> newRedoStack]
          ELSE [strokes   |-> state.strokes,
                undoStack |-> state.undoStack,
                redoStack |-> newRedoStack]

\* clearCanvas that records the clear as an operation of the history
clearCanvasRecorded(userId) ==
  [strokes   |-> <<>>,
   undoStack |-> << [type |-> "clear", stroke |-> Null, userId |-> userId] >>,
   redoStack |-> <<>>]

clearCanvas(userId) == [strokes |-> <<>>, undoStack |-> <<>>, redoStack |-> <<>>]

\* ------------------------------------------------- useDrawingState: roster
HasUser(prev, userId) == \E i \in 1..Len(prev) : prev[i].id = userId

\* updateUserCursor that moves the cursor of a known user and keeps its flag
updateUserCursorKeepsFlag(prev, userId, position, isDrawing) ==
  IF HasUser(prev, userId)
  THEN [i \in 1..Len(prev) |->
          IF prev[i].id = userId
          THEN [prev[i] EXCEPT !.cursorPosition = position]
          ELSE prev[i]]
  ELSE Append(prev, [id |-> userId,
                     name |-> "User " \o ToString(Len(prev) + 1),
                     color |-> USER_COLORS[(Len(prev) % Len(USER_COLORS)) + 1],
                     cursorPosition |-> position,
                     isDrawing |-> isDrawing])

updateUserCursor(prev, userId, position, isDrawing) ==
  IF HasUser(prev, userId)
  THEN [i \in 1..Len(prev) |->
          IF prev[i].id = userId
          THEN [prev[i] EXCEPT !.cursorPosition = position, !.isDrawing = isDrawing]
          ELSE prev[i]]
  ELSE Append(prev, [id |-> userId,
                     name |-> "User " \o ToString(Len(prev) + 1),
                     color |-> USER_COLORS[(Len(prev) % Len(USER_COLORS)) + 1],
                     cursorPosition |-> position,
                     isDrawing |-> isDrawing])

removeUser(prev, userId) == SelectSeq(prev, LAMBDA u : u.id # userId)

\* addUser without the lookup of an existing entry
addUserAlways(prev, user) ==
  Append(prev, [user EXCEPT !.color = IF user.color # "" THEN user.color
                                      ELSE USER_COLORS[(Len(prev) % Len(USER_COLORS)) + 1]])

addUser(prev, user) ==
  IF HasUser(prev, user.id) THEN prev
  ELSE Append(prev, [user EXCEPT !.color = IF user.color # "" THEN user.color
                                            ELSE USER_COLORS[(Len(prev) % Len(USER_COLORS)) + 1]])

\* `User ${presence.user_id.slice(0, 4)}`: the ids of Clients are shorter than 4 characters
PresenceUser(userId) ==
  [id |-> userId, name |-> "User " \o userId, color |-> PresenceColor,
   cursorPosition |-> Null, isDrawing |-> Null]

\* ------------------------------------------------ useCanvasSync: messages
MessageTypes == {"stroke_start", "stroke_update", "stroke_end", "undo", "redo", "clear",
                 "cursor_move", "user_join", "user_leave", "sync_state"}

Msg(type, userId, data) == [type |-> type, userId |-> userId, data |-> data]

StrokeStartMsg(userId, stroke) ==
  Msg("stroke_start", userId,
      [id |-> stroke.id, tool |-> stroke.tool, color |-> stroke.color,
       strokeWidth |-> stroke.strokeWidth, points |-> stroke.points])
\* sendStrokeUpdate(points) while `pending` is the pending stroke
StrokeUpdateMsg(userId, pending, points) ==
  Msg("stroke_update", userId, [id |-> pending.id, points |-> points])
\* sendStrokeEnd publishing what sendStrokeStart published: the first point only
StrokeEndMsgAsStart(userId, stroke) ==
  Msg("stroke_end", userId, [stroke EXCEPT !.points = << stroke.points[1] >>])
StrokeEndMsg(userId, stroke) == Msg("stroke_end", userId, stroke)
CursorMsg(userId, position, isDrawing) ==
  Msg("cursor_move", userId, [position |-> position, isDrawing |-> isDrawing])

\* broadcast sending whether or not the client holds a channel
broadcastAlways(c, messages) == messages

\* broadcast: the messages client c publishes when it sends `messages`; nothing
\* without a channel
broadcast(c, messages) == IF channelRef[c] = Null THEN {} ELSE messages

\* the 'drawing' handler without the check of the sender
OnDrawingNoSelfCheck(c, cs, us, m) ==
  CASE m.type = "stroke_end"  -> [cs |-> addStroke(cs, m.data, m.data.userId), us |-> us]
    [] m.type = "undo"        -> [cs |-> undoOperation(cs, c), us |-> us]
    [] m.type = "redo"        -> [cs |-> redoOperation(cs, c), us |-> us]
    [] m.type = "clear"       -> [cs |-> clearCanvas(c), us |-> us]
    [] m.type = "cursor_move" ->
         [cs |-> cs, us |-> updateUserCursor(us, m.userId, m.data.position, m.data.isDrawing)]
    [] m.type = "user_join"   -> [cs |-> cs, us |-> addUser(us, m.data)]
    [] m.type = "user_leave"  -> [cs |-> cs, us |-> removeUser(us, m.userId)]
    [] m.type = "sync_state"  -> [cs |-> m.data, us |-> us]
    [] OTHER                  -> [cs |-> cs, us |-> us]

\* the 'drawing' handler committing the stroke announced by stroke_start
OnDrawingPreviewCommits(c, cs, us, m) ==
  IF m.userId = c THEN [cs |-> cs, us |-> us]
  ELSE CASE m.type = "stroke_end"   -> [cs |-> addStroke(cs, m.data, m.data.userId), us |-> us]
         [] m.type = "stroke_start" ->
              [cs |-> addStroke(cs, [id |-> m.data.id, userId |-> m.userId, tool |-> m.data.tool,
                                     color |-> m.data.color, strokeWidth |-> m.data.strokeWidth,
                                     points |-> m.data.points], m.userId),
               us |-> us]
         [] m.type = "undo"        -> [cs |-> undoOperation(cs, c), us |-> us]
         [] m.type = "redo"        -> [cs |-> redoOperation(cs, c), us |-> us]
         [] m.type = "clear"       -> [cs |-> clearCanvas(c), us |-> us]
         [] m.type = "cursor_move" ->
              [cs |-> cs, us |-> updateUserCursor(us, m.userId, m.data.position, m.data.isDrawing)]
         [] OTHER                  -> [cs |-> cs, us |-> us]

\* the 'drawing' handler adding a remote stroke in the colour of its author's cursor
OnDrawingRecolors(c, cs, us, m) ==
  IF m.userId = c THEN [cs |-> cs, us |-> us]
  ELSE CASE m.type = "stroke_end"  ->
              [cs |-> addStroke(cs, [m.data EXCEPT !.color = PresenceColor], m.data.userId),
               us |-> us]
         [] m.type = "undo"        -> [cs |-> undoOperation(cs, c), us |-> us]
         [] m.type = "redo"        -> [cs |-> redoOperation(cs, c), us |-> us]
         [] m.type = "clear"       -> [cs |-> clearCanvas(c), us |-> us]
         [] m.type = "cursor_move" ->
              [cs |-> cs, us |-> updateUserCursor(us, m.userId, m.data.position, m.data.isDrawing)]
         [] m.type = "user_join"   -> [cs |-> cs, us |-> addUser(us, m.data)]
         [] m.type = "user_leave"  -> [cs |-> cs, us |-> removeUser(us, m.userId)]
         [] m.type = "sync_state"  -> [cs |-> m.data, us |-> us]
         [] OTHER                  -> [cs |-> cs, us |-> us]

\* the 'drawing' broadcast handler of client c applied to message m: the new
\* canvasState and roster of c
OnDrawing(c, cs, us, m) ==
  IF m.userId = c THEN [cs |-> cs, us |-> us]
  ELSE CASE m.type = "stroke_end"  -> [cs |-> addStroke(cs, m.data, m.data.userId), us |-> us]
         [] m.type = "undo"        -> [cs |-> undoOperation(cs, c), us |-> us]
         [] m.type = "redo"        -> [cs |-> redoOperation(cs, c), us |-> us]
         [] m.type = "clear"       -> [cs |-> clearCanvas(c), us |-> us]
         [] m.type = "cursor_move" ->
              [cs |-> cs, us |-> updateUserCursor(us, m.userId, m.data.position, m.data.isDrawing)]
         [] m.type = "user_join"   -> [cs |-> cs, us |-> addUser(us, m.data)]
         [] m.type = "user_leave"  -> [cs |-> cs, us |-> removeUser(us, m.userId)]
         [] m.type = "sync_state"  -> [cs |-> m.data, us |-> us]
         [] OTHER                  -> [cs |-> cs, us |-> us]

\* the messages on which the 'drawing' handler of client c throws a TypeError:
\* a cursor_move without data (destructuring undefined), a stroke_end without
\* data (stroke.userId in addRemoteStroke), a user_join without data (user.id
\* / user.color in addUser)
Raises(c, m) ==
  /\ m.userId # c
  /\ m.type \in {"stroke_end", "cursor_move", "user_join"}
  /\ m.data = NoData

\* the presence 'join' / 'leave' handlers of client c applied to one presence
OnPresence(c, us, e) ==
  IF e.event = "join"
  THEN IF e.user_id # c THEN addUser(us, PresenceUser(e.user_id)) ELSE us
  ELSE removeUser(us, e.user_id)

\* the n-th channel instance supabase.channel(...) returns to a client
Channel(n) == [instance |-> n]

\* ------------------------------------------------------------------ Init
Init ==
  /\ canvasState = [c \in Clients |-> createInitialState]
  /\ currentStroke = [c \in Clients |-> Null]
  /\ seenStroke = [c \in Clients |-> Null]
  /\ settings = [c \in Clients |-> [tool |-> "brush", color |-> Color0, strokeWidth |-> StrokeWidth0]]
  /\ users = [c \in Clients |-> <<>>]
  /\ hookDrawing = [c \in Clients |-> FALSE]
  /\ dcDrawing = [c \in Clients |-> FALSE]
  /\ lastPoint = [c \in Clients |-> Null]
  /\ pendingStroke = [c \in Clients |-> Null]
  /\ isConnected = [c \in Clients |-> FALSE]
  /\ connectionError = [c \in Clients |-> Null]
  /\ idCounter = [c \in Clients |-> 0]
  /\ net = {}
  /\ presence = {}
  /\ last = [op |-> "init", arg |-> Null, pre |-> createInitialState]
  /\ channelRef = [c \in Clients |-> Channel(1)]
  /\ liveChannels = [c \in Clients |-> {Channel(1)}]


\* --------------------------------------------------------------- actions
\* mousedown / touchstart: handleStart -> handleDrawStart -> startStroke,
\* sendStrokeStart; then handleCursorMove.  A discrete event: the component
\* re-renders before the next event, so the handlers see the new stroke.
\* There is no check of isDrawingRef: a pointer-down while a stroke is in
\* progress (a second touch) starts another stroke.
PointerDown(c, p) ==
  /\ LET newStroke == [id |-> generateStrokeId(c), userId |-> c,
                       tool |-> settings[c].tool, color |-> settings[c].color,
                       strokeWidth |-> settings[c].strokeWidth, points |-> << p >>]
     IN /\ dcDrawing' = [dcDrawing EXCEPT ![c] = TRUE]
        /\ lastPoint' = [lastPoint EXCEPT ![c] = p]
        /\ hookDrawing' = [hookDrawing EXCEPT ![c] = TRUE]
        /\ currentStroke' = [currentStroke EXCEPT ![c] = newStroke]
        /\ seenStroke' = [seenStroke EXCEPT ![c] = newStroke]
        /\ pendingStroke' = [pendingStroke EXCEPT ![c] = newStroke]
        /\ idCounter' = [idCounter EXCEPT ![c] = @ + 1]
        /\ net' = net \cup broadcast(c, {StrokeStartMsg(c, newStroke), CursorMsg(c, p, TRUE)})
  /\ UNCHANGED << last, channelRef, liveChannels >>
  /\ UNCHANGED << canvasState, settings, users, isConnected, connectionError, presence >>

\* mousemove / touchmove: handleMove -> handleCursorMove, then (while drawing
\* and far enough from the last recorded point) handleDrawMove -> continueStroke,
\* which extends the stroke captured at the last render.
PointerMove(c, p) ==
  LET accepted == dcDrawing[c] /\ ~(lastPoint[c] # Null /\ TooClose(p, lastPoint[c]))
      extends  == accepted /\ hookDrawing[c] /\ seenStroke[c] # Null
  IN /\ extends => Len(seenStroke[c].points) < MaxPoints
     /\ net' = net \cup broadcast(c, {CursorMsg(c, p, dcDrawing[c])})
     /\ lastPoint' = IF accepted THEN [lastPoint EXCEPT ![c] = p] ELSE lastPoint
     /\ currentStroke' =
          IF extends
          THEN [currentStroke EXCEPT ![c] =
                  [seenStroke[c] EXCEPT !.points = Append(seenStroke[c].points, p)]]
          ELSE currentStroke
     /\ UNCHANGED << last, channelRef, liveChannels >>
     /\ UNCHANGED << canvasState, seenStroke, settings, users, hookDrawing, dcDrawing,
                     pendingStroke, isConnected, connectionError, idCounter, presence >>

\* the component re-renders: continueStroke / endStroke are re-created over the
\* current value of currentStroke
Render(c) ==
  /\ seenStroke[c] # currentStroke[c]
  /\ seenStroke' = [seenStroke EXCEPT ![c] = currentStroke[c]]
  /\ UNCHANGED << last, channelRef, liveChannels >>
  /\ UNCHANGED << canvasState, currentStroke, settings, users, hookDrawing, dcDrawing,
                  lastPoint, pendingStroke, isConnected, connectionError, idCounter,
                  net, presence >>

\* mouseup / mouseleave / touchend: handleEnd -> handleDrawEnd -> endStroke,
\* sendStrokeEnd; then handleCursorMove({x: 0, y: 0}, false)
PointerEnd(c) ==
  LET ends     == hookDrawing[c] /\ seenStroke[c] # Null
      finished == seenStroke[c]
  IN /\ dcDrawing[c]
     /\ dcDrawing' = [dcDrawing EXCEPT ![c] = FALSE]
     /\ lastPoint' = [lastPoint EXCEPT ![c] = Null]
     /\ hookDrawing' = IF ends THEN [hookDrawing EXCEPT ![c] = FALSE] ELSE hookDrawing
     /\ canvasState' =
          IF ends /\ Len(finished.points) >= 2
          THEN [canvasState EXCEPT ![c] = addStroke(@, finished, c)]
          ELSE canvasState
     /\ currentStroke' = IF ends THEN [currentStroke EXCEPT ![c] = Null] ELSE currentStroke
     /\ seenStroke' = [seenStroke EXCEPT ![c] = currentStroke'[c]]
     /\ pendingStroke' = IF ends THEN [pendingStroke EXCEPT ![c] = Null] ELSE pendingStroke
     /\ net' = net \cup broadcast(c, (IF ends THEN {StrokeEndMsg(c, finished)} ELSE {})
                                      \cup {CursorMsg(c, Origin, FALSE)})
     /\ UNCHANGED << last, channelRef, liveChannels >>
     /\ UNCHANGED << settings, users, isConnected, connectionError, idCounter, presence >>

\* handleUndo doing nothing while the channel is not connected
UndoWhenConnected(c) ==
  /\ isConnected[c]
  /\ canvasState' = [canvasState EXCEPT ![c] = undoOperation(@, c)]
  /\ net' = net \cup broadcast(c, {Msg("undo", c, NoData)})
  /\ UNCHANGED << last, channelRef, liveChannels >>
  /\ UNCHANGED << currentStroke, seenStroke, settings, users, hookDrawing, dcDrawing,
                  lastPoint, pendingStroke, isConnected, connectionError, idCounter, presence >>

\* handleUndo: undo() then sendUndo()
Undo(c) ==
  /\ canvasState' = [canvasState EXCEPT ![c] = undoOperation(@, c)]
  /\ net' = net \cup broadcast(c, {Msg("undo", c, NoData)})
  /\ UNCHANGED << last, channelRef, liveChannels >>
  /\ UNCHANGED << currentStroke, seenStroke, settings, users, hookDrawing, dcDrawing,
                  lastPoint, pendingStroke, isConnected, connectionError, idCounter, presence >>

\* handleRedo: redo() then sendRedo()
Redo(c) ==
  /\ canvasState' = [canvasState EXCEPT ![c] = redoOperation(@, c)]
  /\ net' = net \cup broadcast(c, {Msg("redo", c, NoData)})
  /\ UNCHANGED << last, channelRef, liveChannels >>
  /\ UNCHANGED << currentStroke, seenStroke, settings, users, hookDrawing, dcDrawing,
                  lastPoint, pendingStroke, isConnected, connectionError, idCounter, presence >>

\* handleClear: clear() then sendClear()
Clear(c) ==
  /\ canvasState' = [canvasState EXCEPT ![c] = clearCanvas(c)]
  /\ net' = net \cup broadcast(c, {Msg("clear", c, NoData)})
  /\ UNCHANGED << last, channelRef, liveChannels >>
  /\ UNCHANGED << currentStroke, seenStroke, settings, users, hookDrawing, dcDrawing,
                  lastPoint, pendingStroke, isConnected, connectionError, idCounter, presence >>

\* setTool (toolbar, or the 'b' / 'e' keys)
SetTool(c, tool) ==
  /\ settings[c].tool # tool
  /\ settings' = [settings EXCEPT ![c].tool = tool]
  /\ UNCHANGED << last, channelRef, liveChannels >>
  /\ UNCHANGED << canvasState, currentStroke, seenStroke, users, hookDrawing, dcDrawing,
                  lastPoint, pendingStroke, isConnected, connectionError, idCounter,
                  net, presence >>

\* the transport hands client c a broadcast published to the room (any message,
\* any number of times, in any order)
Deliver(c, m) ==
  /\ isConnected[c]
  /\ m \in net
  /\ (m.type = "stroke_end" /\ m.userId # c) =>
        Len(canvasState[c].undoStack) + Len(canvasState[c].redoStack) < MaxHistory
  /\ canvasState' = [canvasState EXCEPT ![c] = OnDrawing(c, canvasState[c], users[c], m).cs]
  /\ users' = [users EXCEPT ![c] = OnDrawing(c, canvasState[c], users[c], m).us]
  /\ UNCHANGED << last, channelRef, liveChannels >>
  /\ UNCHANGED << currentStroke, seenStroke, settings, hookDrawing, dcDrawing, lastPoint,
                  pendingStroke, isConnected, connectionError, idCounter, net, presence >>

\* the transport hands client c a presence join / leave
DeliverPresence(c, e) ==
  /\ isConnected[c]
  /\ e \in presence
  /\ users' = [users EXCEPT ![c] = OnPresence(c, users[c], e)]
  /\ UNCHANGED << last, channelRef, liveChannels >>
  /\ UNCHANGED << canvasState, currentStroke, seenStroke, settings, hookDrawing, dcDrawing,
                  lastPoint, pendingStroke, isConnected, connectionError, idCounter,
                  net, presence >>

\* subscribe callback, status SUBSCRIBED: connected, error cleared, presence tracked
Subscribed(c) ==
  /\ ~isConnected[c]
  /\ isConnected' = [isConnected EXCEPT ![c] = TRUE]
  /\ connectionError' = [connectionError EXCEPT ![c] = Null]
  /\ presence' = presence \cup {[event |-> "join", user_id |-> c]}
  /\ UNCHANGED << last, channelRef, liveChannels >>
  /\ UNCHANGED << canvasState, currentStroke, seenStroke, settings, users, hookDrawing,
                  dcDrawing, lastPoint, pendingStroke, idCounter, net >>

\* the subscribe callback that flips to disconnected without a status text
DisconnectedSilently(c, status) ==
  /\ status \in {"CLOSED", "CHANNEL_ERROR"}
  /\ isConnected' = [isConnected EXCEPT ![c] = FALSE]
  /\ connectionError' = connectionError
  /\ presence' = IF isConnected[c] THEN presence \cup {[event |-> "leave", user_id |-> c]}
                 ELSE presence
  /\ UNCHANGED << last, channelRef, liveChannels >>
  /\ UNCHANGED << canvasState, currentStroke, seenStroke, settings, users, hookDrawing,
                  dcDrawing, lastPoint, pendingStroke, idCounter, net >>

\* subscribe callback, status CLOSED or CHANNEL_ERROR (also before the first
\* SUBSCRIBED); the transport reports a member that had joined as having left
Disconnected(c, status) ==
  /\ status \in {"CLOSED", "CHANNEL_ERROR"}
  /\ isConnected' = [isConnected EXCEPT ![c] = FALSE]
  /\ connectionError' = [connectionError EXCEPT ![c] =
                           [message |-> "Connection lost. Trying to reconnect..."]]
  /\ presence' = IF isConnected[c] THEN presence \cup {[event |-> "leave", user_id |-> c]}
                 ELSE presence
  /\ UNCHANGED << last, channelRef, liveChannels >>
  /\ UNCHANGED << canvasState, currentStroke, seenStroke, settings, users, hookDrawing,
                  dcDrawing, lastPoint, pendingStroke, idCounter, net >>

\* Spec: client A draws, both clients edit the history, the transport
\* delivers.  The pointer is moved while a stroke is in progress.
Drawers == {"A"}

Next ==
  \/ \E c \in Drawers, p \in PointInputs : idCounter[c] < MaxStrokes /\ PointerDown(c, p)
  \/ \E c \in Clients, p \in PointInputs : dcDrawing[c] /\ PointerMove(c, p)
  \/ \E c \in Clients : Render(c)
  \/ \E c \in Clients : PointerEnd(c)
  \/ \E c \in Clients : Undo(c)
  \/ \E c \in Clients : Redo(c)
  \/ \E c \in Clients : Clear(c)
  \/ \E c \in Clients, m \in net : Deliver(c, m)
  \/ \E c \in Clients, e \in presence : DeliverPresence(c, e)
  \/ \E c \in Clients : Subscribed(c)

Spec == Init /\ [][Next]_vars

\* ------------------------------------------------------------ SpecEngine
\* The canvas engine alone, as client EngineClient's hook calls it: addStroke
\* with a finished local stroke or the payload of a remote stroke_end,
\* undoOperation / redoOperation with the client's own id, clearCanvas.
EngineClient == "A"

MkStroke(id, userId, points) ==
  [id |-> id, userId |-> userId, tool |-> "brush", color |-> Color0,
   strokeWidth |-> StrokeWidth0, points |-> points]

StrokeInputs ==
  { MkStroke(<< "A", 1 >>, "A", << Pt(0, 0), Pt(2, 0) >>),
    MkStroke(<< "B", 1 >>, "B", << Pt(2, 0), Pt(0, 0) >>),
    MkStroke(<< "B", 2 >>, "B", << Pt(0, 0) >>) }

EngineCall(op, arg, state) ==
  /\ canvasState' = [canvasState EXCEPT ![EngineClient] = state]
  /\ last' = [op |-> op, arg |-> arg, pre |-> canvasState[EngineClient]]
  /\ UNCHANGED << channelRef, liveChannels >>
  /\ UNCHANGED << currentStroke, seenStroke, settings, users, hookDrawing, dcDrawing,
                  lastPoint, pendingStroke, isConnected, connectionError, idCounter,
                  net, presence >>

EngineAdd(T) ==
  /\ Len(canvasState[EngineClient].undoStack) + Len(canvasState[EngineClient].redoStack) < MaxOps
  /\ EngineCall("add", T, addStroke(canvasState[EngineClient], T, T.userId))

EngineUndo == EngineCall("undo", Null, undoOperation(canvasState[EngineClient], EngineClient))

EngineRedo == EngineCall("redo", Null, redoOperation(canvasState[EngineClient], EngineClient))

EngineClear == EngineCall("clear", Null, clearCanvas(EngineClient))

EngineNext ==
  \/ \E T \in StrokeInputs : EngineAdd(T)
  \/ EngineUndo
  \/ EngineRedo
  \/ EngineClear

SpecEngine == Init /\ [][EngineNext]_vars

\* ------------------------------------------------------------- SpecLocal
\* One client on its own: the pointer controller (a pointer-down may arrive
\* while a stroke is in progress, the pointer also moves while idle), the
\* history keys, the tool keys, and its channel connecting and dropping.
LocalClient == "A"

LocalNext ==
  \/ \E p \in PointInputs : idCounter[LocalClient] < MaxLocalStrokes /\ PointerDown(LocalClient, p)
  \/ \E p \in PointInputs : PointerMove(LocalClient, p)
  \/ Render(LocalClient)
  \/ PointerEnd(LocalClient)
  \/ Undo(LocalClient)
  \/ Redo(LocalClient)
  \/ Clear(LocalClient)
  \/ \E tool \in Tools : SetTool(LocalClient, tool)
  \/ Subscribed(LocalClient)
  \/ \E status \in {"CLOSED", "CHANNEL_ERROR"} : Disconnected(LocalClient, status)

SpecLocal == Init /\ [][LocalNext]_vars

\* ------------------------------------------------------------- SpecOrder
\* The room once both clients have joined, over a transport that hands every
\* broadcast to the peer exactly once (in any order): a message leaves `net`
\* when it is delivered, and a client does not publish a message that is still
\* in flight.
AllJoined == \A c \in Clients : isConnected[c]

NotInFlight(type, c) == Msg(type, c, NoData) \notin net

DeliverOnce(c, m) ==
  /\ isConnected[c]
  /\ m \in net
  /\ m.userId # c
  /\ canvasState' = [canvasState EXCEPT ![c] = OnDrawing(c, canvasState[c], users[c], m).cs]
  /\ users' = [users EXCEPT ![c] = OnDrawing(c, canvasState[c], users[c], m).us]
  /\ net' = net \ {m}
  /\ UNCHANGED << last, channelRef, liveChannels >>
  /\ UNCHANGED << currentStroke, seenStroke, settings, hookDrawing, dcDrawing, lastPoint,
                  pendingStroke, isConnected, connectionError, idCounter, presence >>

OrderNext ==
  \/ \E c \in Clients : Subscribed(c)
  \/ \E c \in Drawers, p \in PointInputs :
        AllJoined /\ idCounter[c] < MaxStrokes /\ PointerDown(c, p)
  \/ \E c \in Clients, p \in PointInputs : dcDrawing[c] /\ PointerMove(c, p)
  \/ \E c \in Clients : Render(c)
  \/ \E c \in Clients : PointerEnd(c)
  \/ \E c \in Clients : AllJoined /\ NotInFlight("undo", c) /\ Undo(c)
  \/ \E c \in Clients : AllJoined /\ NotInFlight("redo", c) /\ Redo(c)
  \/ \E c \in Clients : AllJoined /\ NotInFlight("clear", c) /\ Clear(c)
  \/ \E c \in Clients, m \in net : DeliverOnce(c, m)

SpecOrder == Init /\ [][OrderNext]_vars

\* -------------------------------------------------------- SpecSequential
\* The room of SpecOrder with the actions issued one at a time: a client acts
\* only when every message published so far has been delivered to the peer.
Quiescent == AllJoined /\ net = {}

SequentialNext ==
  \/ \E c \in Clients : Subscribed(c)
  \/ \E c \in Drawers, p \in PointInputs :
        Quiescent /\ idCounter[c] < MaxStrokes /\ PointerDown(c, p)
  \/ \E c \in Clients, p \in PointInputs : Quiescent /\ dcDrawing[c] /\ PointerMove(c, p)
  \/ \E c \in Clients : Render(c)
  \/ \E c \in Clients : Quiescent /\ PointerEnd(c)
  \/ \E c \in Clients : Quiescent /\ Undo(c)
  \/ \E c \in Clients : Quiescent /\ Redo(c)
  \/ \E c \in Clients : Quiescent /\ Clear(c)
  \/ \E c \in Clients, m \in net : DeliverOnce(c, m)

SpecSequential == Init /\ [][SequentialNext]_vars

\* ----------------------------------------------------------- SpecSession
\* One client whose session is dismounted and mounted again, or whose room
\* changes, while its handlers keep being invoked.
\* The connect effect's body: a new channel instance is created, its handlers
\* registered, it is subscribed and stored in channelRef.
NewChannel(c) ==
  Channel(CHOOSE n \in 1..(Cardinality(liveChannels[c]) + 1) : Channel(n) \notin liveChannels[c])

Connect(c) ==
  /\ channelRef' = [channelRef EXCEPT ![c] = NewChannel(c)]
  /\ liveChannels' = [liveChannels EXCEPT ![c] = @ \cup {NewChannel(c)}]

\* The connect effect's cleanup: channel.unsubscribe(); channelRef.current = null
Cleanup(c) ==
  /\ channelRef' = [channelRef EXCEPT ![c] = Null]
  /\ liveChannels' = [liveChannels EXCEPT ![c] = @ \ {channelRef[c]}]

SessionFrame ==
  UNCHANGED << canvasState, currentStroke, seenStroke, settings, users, hookDrawing,
               dcDrawing, lastPoint, pendingStroke, isConnected, connectionError,
               idCounter, net, presence, last >>

\* the session is dismounted: React runs the effect's cleanup
Unmount(c) ==
  /\ channelRef[c] # Null
  /\ Cleanup(c)
  /\ SessionFrame

\* the session is mounted again: React runs the effect's body
Mount(c) ==
  /\ channelRef[c] = Null
  /\ Connect(c)
  /\ SessionFrame

\* roomId or userId changes: React runs the cleanup of the previous effect,
\* then the body of the new one
Resubscribe(c) ==
  /\ channelRef[c] # Null
  /\ channelRef' = [channelRef EXCEPT ![c] = NewChannel(c)]
  /\ liveChannels' = [liveChannels EXCEPT ![c] = {NewChannel(c)}]
  /\ SessionFrame

SessionClient == "A"

SessionNext ==
  \/ Unmount(SessionClient)
  \/ Mount(SessionClient)
  \/ Resubscribe(SessionClient)
  \/ \E p \in PointInputs :
        idCounter[SessionClient] < MaxStrokes /\ PointerDown(SessionClient, p)
  \/ \E p \in PointInputs : PointerMove(SessionClient, p)
  \/ Render(SessionClient)
  \/ PointerEnd(SessionClient)
  \/ Undo(SessionClient)
  \/ Redo(SessionClient)
  \/ Clear(SessionClient)

SpecSession == Init /\ [][SessionNext]_vars

\* ------------------------------------------------------------ SpecRoster
\* The roster of client RosterClient under any sequence, with repetitions, of
\* presence joins and leaves and of cursor_move / user_join / user_leave
\* broadcasts, from two other members and echoed from the client itself.
RosterClient == "A"

RosterIds == {"A", "B", "C"}

\* the user a user_join broadcast carries: no colour chosen yet
JoinData(u) == [PresenceUser(u) EXCEPT !.color = ""]

RosterMessages ==
  { CursorMsg(u, p, b) : u \in RosterIds, p \in PointInputs, b \in BOOLEAN }
  \cup { Msg("user_join", u, JoinData(u)) : u \in RosterIds }
  \cup { Msg("user_leave", u, NoData) : u \in RosterIds }

RosterPresences == { [event |-> ev, user_id |-> u] : ev \in {"join", "leave"}, u \in RosterIds }

RosterReceive(m) ==
  /\ canvasState' = [canvasState EXCEPT ![RosterClient] =
                        OnDrawing(RosterClient, canvasState[RosterClient], users[RosterClient], m).cs]
  /\ users' = [users EXCEPT ![RosterClient] =
                  OnDrawing(RosterClient, canvasState[RosterClient], users[RosterClient], m).us]
  /\ UNCHANGED << last, channelRef, liveChannels >>
  /\ UNCHANGED << currentStroke, seenStroke, settings, hookDrawing, dcDrawing, lastPoint,
                  pendingStroke, isConnected, connectionError, idCounter, net, presence >>

RosterPresence(e) ==
  /\ users' = [users EXCEPT ![RosterClient] = OnPresence(RosterClient, users[RosterClient], e)]
  /\ UNCHANGED << last, channelRef, liveChannels >>
  /\ UNCHANGED << canvasState, currentStroke, seenStroke, settings, hookDrawing, dcDrawing,
                  lastPoint, pendingStroke, isConnected, connectionError, idCounter,
                  net, presence >>

RosterNext ==
  \/ \E m \in RosterMessages : RosterReceive(m)
  \/ \E e \in RosterPresences : RosterPresence(e)

SpecRoster == Init /\ [][RosterNext]_vars

\* ------------------------------------------------------------------
\* Remote operations arriving while one client draws: the client's pointer
\* handlers interleaved with the broadcast and presence handlers, each arrival
\* recording in `last` the message and the drawing state it found.
MidStrokeClient == "A"

RemoteStroke == MkStroke(<< "B", 1 >>, "B", << Pt(2, 0), Pt(0, 0) >>)

MidStrokeMessages ==
  { StrokeEndMsg("B", RemoteStroke), Msg("undo", "B", NoData), Msg("redo", "B", NoData),
    Msg("clear", "B", NoData), Msg("user_join", "B", JoinData("B")),
    Msg("user_leave", "B", NoData) }
  \cup { CursorMsg("B", p, b) : p \in PointInputs, b \in BOOLEAN }

MidStrokePresences == { [event |-> ev, user_id |-> "B"] : ev \in {"join", "leave"} }

\* what useDrawingState holds for the drawing client, apart from the roster
DrawingView ==
  [currentStroke |-> currentStroke[MidStrokeClient],
   isDrawing     |-> hookDrawing[MidStrokeClient],
   settings      |-> settings[MidStrokeClient],
   canvasState   |-> canvasState[MidStrokeClient]]

RemoteArrives(m) ==
  /\ m.type = "stroke_end" =>
        Len(canvasState[MidStrokeClient].undoStack)
          + Len(canvasState[MidStrokeClient].redoStack) < MaxHistory
  /\ canvasState' = [canvasState EXCEPT ![MidStrokeClient] =
                        OnDrawing(MidStrokeClient, canvasState[MidStrokeClient],
                                  users[MidStrokeClient], m).cs]
  /\ users' = [users EXCEPT ![MidStrokeClient] =
                  OnDrawing(MidStrokeClient, canvasState[MidStrokeClient],
                            users[MidStrokeClient], m).us]
  /\ last' = [op |-> "remote", arg |-> m, pre |-> DrawingView]
  /\ UNCHANGED << channelRef, liveChannels >>
  /\ UNCHANGED << currentStroke, seenStroke, settings, hookDrawing, dcDrawing, lastPoint,
                  pendingStroke, isConnected, connectionError, idCounter, net, presence >>

PresenceArrives(e) ==
  /\ users' = [users EXCEPT ![MidStrokeClient] =
                  OnPresence(MidStrokeClient, users[MidStrokeClient], e)]
  /\ last' = [op |-> "presence", arg |-> e, pre |-> DrawingView]
  /\ UNCHANGED << channelRef, liveChannels >>
  /\ UNCHANGED << canvasState, currentStroke, seenStroke, settings, hookDrawing, dcDrawing,
                  lastPoint, pendingStroke, isConnected, connectionError, idCounter,
                  net, presence >>

MidStrokeNext ==
  \/ \E p \in PointInputs :
       idCounter[MidStrokeClient] < MaxStrokes /\ PointerDown(MidStrokeClient, p)
  \/ \E p \in PointInputs : PointerMove(MidStrokeClient, p)
  \/ Render(MidStrokeClient)
  \/ PointerEnd(MidStrokeClient)
  \/ \E m \in MidStrokeMessages : RemoteArrives(m)
  \/ \E e \in MidStrokePresences : PresenceArrives(e)

SpecMidStroke == Init /\ [][MidStrokeNext]_vars

\* ------------------------------------------------------------------
\* One member's session as another client sees it: the leaver subscribes
\* once, draws and moves its pointer while subscribed and loses its channel; the watcher
\* handles the broadcasts and presence events in whatever order the transport
\* hands them over.  `last` keeps the latest presence event the watcher handled.
Watcher == "A"

Leaver == "B"

WatcherReceives(m) ==
  /\ isConnected[Watcher]
  /\ m \in net
  /\ m.type = "stroke_end" =>
        Len(canvasState[Watcher].undoStack) + Len(canvasState[Watcher].redoStack) < MaxHistory
  /\ canvasState' = [canvasState EXCEPT ![Watcher] =
                        OnDrawing(Watcher, canvasState[Watcher], users[Watcher], m).cs]
  /\ users' = [users EXCEPT ![Watcher] =
                  OnDrawing(Watcher, canvasState[Watcher], users[Watcher], m).us]
  /\ UNCHANGED << last, channelRef, liveChannels >>
  /\ UNCHANGED << currentStroke, seenStroke, settings, hookDrawing, dcDrawing, lastPoint,
                  pendingStroke, isConnected, connectionError, idCounter, net, presence >>

WatcherPresence(e) ==
  /\ isConnected[Watcher]
  /\ e \in presence
  /\ users' = [users EXCEPT ![Watcher] = OnPresence(Watcher, users[Watcher], e)]
  /\ last' = [op |-> e.event, arg |-> e, pre |-> last.pre]
  /\ UNCHANGED << channelRef, liveChannels >>
  /\ UNCHANGED << canvasState, currentStroke, seenStroke, settings, hookDrawing, dcDrawing,
                  lastPoint, pendingStroke, isConnected, connectionError, idCounter,
                  net, presence >>

LeaveNext ==
  \/ Subscribed(Watcher)
  \/ [event |-> "leave", user_id |-> Leaver] \notin presence /\ Subscribed(Leaver)
  \/ \E p \in PointInputs :
       isConnected[Leaver] /\ idCounter[Leaver] < MaxStrokes /\ PointerDown(Leaver, p)
  \/ \E p \in PointInputs : isConnected[Leaver] /\ PointerMove(Leaver, p)
  \/ isConnected[Leaver] /\ PointerEnd(Leaver)
  \/ \E status \in {"CLOSED", "CHANNEL_ERROR"} : Disconnected(Leaver, status)
  \/ \E m \in net : WatcherReceives(m)
  \/ \E e \in presence : WatcherPresence(e)

SpecLeave == Init /\ [][LeaveNext]_vars

\* endStroke's state update for the stroke it finalizes: committed only with
\* at least 2 points
LocalCommit(state, finishedStroke, userId) ==
  IF Len(finishedStroke.points) >= 2 THEN addStroke(state, finishedStroke, userId) ELSE state

\* ------------------------------------------------------------- helpers
Range(f) == { f[i] : i \in DOMAIN f }

Ids(strokes) == { strokes[i].id : i \in 1..Len(strokes) }

UniqueIds(strokes) ==
  \A i, j \in 1..Len(strokes) : i # j => strokes[i].id # strokes[j].id

Without(strokes, id) == SelectSeq(strokes, LAMBDA s : s.id # id)

\* the operations of a log applied in order, starting from the empty state
RECURSIVE Replay(_)
Replay(log) ==
  IF log = <<>> THEN createInitialState
  ELSE LET prev == Replay(SubSeq(log, 1, Len(log) - 1))
           op   == log[Len(log)]
       IN CASE op.type = "add"   -> addStroke(prev, op.stroke, op.userId)
            [] op.type = "undo"  -> undoOperation(prev, op.userId)
            [] op.type = "redo"  -> redoOperation(prev, op.userId)
            [] op.type = "clear" -> clearCanvas(op.userId)

Unchanged(c) == [cs |-> canvasState[c], us |-> users[c]]

Handle(c, m) == OnDrawing(c, canvasState[c], users[c], m)

\* one message of every type, as if published by client c itself
ProbeData(type, c) ==
  CASE type \in {"stroke_start", "stroke_end"} ->
         MkStroke(<< c, 1 >>, c, << Pt(0, 0), Pt(2, 0) >>)
    [] type = "stroke_update" -> [id |-> << c, 1 >>, points |-> << Pt(2, 0) >>]
    [] type = "cursor_move"   -> [position |-> Pt(2, 0), isDrawing |-> TRUE]
    [] type = "user_join"     -> PresenceUser(c)
    [] type = "sync_state"    ->
         addStroke(createInitialState, MkStroke(<< c, 1 >>, c, << Pt(0, 0), Pt(2, 0) >>), c)
    [] OTHER                  -> NoData

OwnMessages(c) ==
  { m \in net : m.userId = c } \cup { Msg(type, c, ProbeData(type, c)) : type \in MessageTypes }

\* the strokes a client has started so far (each was its pending stroke)
StartedIds(d) == { << d, n >> : n \in 1..idCounter[d] }

\* the preview messages the peers of c have published, and the stroke_update
\* messages sendStrokeUpdate publishes for a stroke a peer has started
PreviewMessages(c) ==
  { m \in net : m.userId # c /\ m.type \in {"stroke_start", "stroke_update"} }
  \cup UNION { { StrokeUpdateMsg(d, [id |-> id], << p >>) : id \in StartedIds(d), p \in PointInputs } :
                d \in Clients \ {c} }

EngineState == canvasState[EngineClient]

\* ---------------------------------------------------------------- claims

\* C1: a stroke finalized with fewer than 2 points never appears in the strokes
\* of any client, author or peer.
C1_ShortStrokeNeverCommitted ==
  \A c \in Clients : \A i \in 1..Len(canvasState[c].strokes) :
    Len(canvasState[c].strokes[i].points) >= 2

\* C2: adding a stroke is idempotent: a stroke_end whose stroke id a peer
\* already holds, delivered again, leaves the peer's strokes, undoStack and
\* redoStack as they are.
C2_AddIdempotent ==
  \A c \in Clients : \A m \in net :
    (m.type = "stroke_end" /\ m.userId # c /\ m.data.id \in Ids(canvasState[c].strokes))
      => Handle(c, m).cs = canvasState[c]

\* C3: in every reachable state of every client, strokes holds at most one
\* entry per stroke id.
C3_UniqueStrokeIds == \A c \in Clients : UniqueIds(canvasState[c].strokes)

\* C4: undo followed by redo is the identity on every state with a non-empty
\* undoStack: strokes, undoStack and redoStack are as before.
C4_UndoRedoInverse ==
  \A c \in Clients :
    Len(canvasState[c].undoStack) > 0
      => redoOperation(undoOperation(canvasState[c], c), c) = canvasState[c]

\* C5: addStroke on a state with a non-empty redoStack yields an empty
\* redoStack, for a local stroke and for the stroke of a remote stroke_end.
C5_AddClearsRedo ==
  (last.op = "add" /\ last.pre.redoStack # <<>>) => EngineState.redoStack = <<>>

C5_Witness ==
  /\ last.op = "add"
  /\ last.pre.redoStack # <<>>
  /\ last.arg.userId # EngineClient
  /\ last.arg \in Range(EngineState.strokes)

\* C6: undo on an empty undoStack and redo on an empty redoStack return the
\* state unchanged (also when the other stack is non-empty).
C6_EmptyUndoRedoNoOp ==
  /\ (last.op = "undo" /\ last.pre.undoStack = <<>>) => EngineState = last.pre
  /\ (last.op = "redo" /\ last.pre.redoStack = <<>>) => EngineState = last.pre

C6_Witness ==
  /\ last.op = "undo"
  /\ last.pre.undoStack = <<>>
  /\ last.pre.redoStack # <<>>

\* C7: undo on a non-empty undoStack removes from strokes the stroke of the
\* last undoStack entry, whoever authored it, and leaves the other strokes
\* present and in the same order.
C7_UndoRemovesLastAdded ==
  (last.op = "undo" /\ last.pre.undoStack # <<>>) =>
    LET removed == last.pre.undoStack[Len(last.pre.undoStack)].stroke
    IN /\ removed.id \notin Ids(EngineState.strokes)
       /\ EngineState.strokes = Without(last.pre.strokes, removed.id)

C7_Witness ==
  /\ last.op = "undo"
  /\ last.pre.undoStack # <<>>
  /\ last.pre.undoStack[Len(last.pre.undoStack)].userId # EngineClient
  /\ Len(EngineState.strokes) = 2
  /\ Len(last.pre.strokes) = 3

\* C8: in every reachable state of a client, replaying undoStack from the
\* empty state reproduces strokes exactly.
C8_ReplayReproducesStrokes ==
  \A c \in Clients : Replay(canvasState[c].undoStack).strokes = canvasState[c].strokes

\* C9: a message or presence event whose author is the local client changes
\* neither the local canvasState nor the local roster, for every message type.
C9_SelfEchoIgnored ==
  \A c \in Clients :
    /\ \A m \in OwnMessages(c) : Handle(c, m) = Unchanged(c)
    /\ \A ev \in {"join", "leave"} :
         OnPresence(c, users[c], [event |-> ev, user_id |-> c]) = users[c]

C9_Witness ==
  \E c \in Clients :
    /\ isConnected[c]
    /\ canvasState[c].strokes # <<>>
    /\ users[c] # <<>>
    /\ [event |-> "join", user_id |-> c] \in presence
    /\ \E m \in net : m.userId = c /\ m.type = "stroke_end"
    /\ \E m \in net : m.userId = c /\ m.type = "undo"
    /\ \E m \in net : m.userId = c /\ m.type = "cursor_move"

\* C10: stroke_start and stroke_update never change the receiver's strokes,
\* undoStack or redoStack; the stroke a peer commits is exactly the one carried
\* by stroke_end, whatever the preview messages for that id contained.
C10_PreviewsDoNotCommit ==
  \A c \in Clients :
    /\ \A m \in PreviewMessages(c) : Handle(c, m).cs = canvasState[c]
    /\ \A m \in net :
         (m.type = "stroke_end" /\ m.userId # c)
           => Handle(c, m).cs.strokes = Append(canvasState[c].strokes, m.data)
    /\ \A i \in 1..Len(canvasState[c].strokes) :
         LET s == canvasState[c].strokes[i]
         IN s.userId # c => StrokeEndMsg(s.userId, s) \in net

C10_Witness ==
  \E c \in Clients : \E i \in 1..Len(canvasState[c].strokes) :
    LET s == canvasState[c].strokes[i]
    IN /\ s.userId # c
       /\ Len(s.points) = 2
       /\ \E m \in PreviewMessages(c) :
            m.type = "stroke_start" /\ m.data.id = s.id /\ m.data.points # s.points
       /\ \E m \in PreviewMessages(c) : m.type = "stroke_update"

\* C11: when a client calls clear, its strokes, undoStack and redoStack are
\* empty immediately afterwards; a peer's are empty immediately after it
\* processes the clear message; an undo that follows on either client changes
\* nothing, so no stroke from before the clear comes back.
Cleared(state, c) ==
  /\ state.strokes = <<>>
  /\ state.undoStack = <<>>
  /\ state.redoStack = <<>>
  /\ undoOperation(state, c) = state

C11_ClearEmptiesEverything ==
  \A c \in Clients :
    /\ Cleared(clearCanvas(c), c)
    /\ \A m \in net :
         (m.type = "clear" /\ m.userId # c) => Cleared(Handle(c, m).cs, c)

C11_Witness ==
  \E c \in Clients : \E d \in Clients \ {c} :
    /\ Msg("clear", c, NoData) \in net
    /\ \E m \in net : m.type = "stroke_end" /\ m.userId = c /\ Len(m.data.points) >= 2
    /\ isConnected[d]
    /\ Cleared(canvasState[c], c)
    /\ canvasState[d].strokes # <<>>
    /\ canvasState[d].undoStack # <<>>
    /\ Cleared(Handle(d, Msg("clear", c, NoData)).cs, d)

\* C12: when a client finishes a stroke s of at least 2 points, the stroke_end
\* it publishes carries s, and a peer that receives it holds its previous
\* strokes followed by s, with the same id, tool, color, width and points; a
\* peer whose strokes were empty holds exactly << s >>.
SameStroke(s, t) ==
  /\ s.id = t.id
  /\ s.userId = t.userId
  /\ s.tool = t.tool
  /\ s.color = t.color
  /\ s.strokeWidth = t.strokeWidth
  /\ s.points = t.points

C12_PeerAppendsFinishedStroke ==
  \A c \in Clients :
    /\ \A i \in 1..Len(canvasState[c].strokes) :
         LET s == canvasState[c].strokes[i]
         IN s.userId = c => [type |-> "stroke_end", userId |-> c, data |-> s] \in net
    /\ \A m \in net :
         (m.type = "stroke_end" /\ m.userId # c /\ Len(m.data.points) >= 2) =>
           LET before == canvasState[c].strokes
               after  == Handle(c, m).cs.strokes
           IN /\ Len(after) = Len(before) + 1
              /\ SubSeq(after, 1, Len(before)) = before
              /\ SameStroke(after[Len(after)], m.data)
              /\ (before = <<>>) => (after = << m.data >>)

C12_Witness ==
  \E s \in { m.data : m \in { n \in net : n.type = "stroke_end" } } :
    /\ Len(s.points) >= 2
    /\ s.userId = "A"
    /\ canvasState["A"].strokes = << s >>
    /\ canvasState["B"].strokes = << s >>
    /\ canvasState["B"].undoStack = << [type |-> "add", stroke |-> s, userId |-> "A"] >>

\* C13: on pointer-up or pointer-leave while drawing (both run handleEnd), a
\* finalized stroke of at least 2 points is appended to the local strokes
\* with an add entry on undoStack, exactly one stroke_end is published and it
\* carries the whole stroke, and the controller is idle afterwards with no
\* in-progress stroke.
Finalized(c) == seenStroke[c]

Applied(c, m) ==
  CASE m.type = "undo"       -> canvasState'[c] = undoOperation(canvasState[c], c)
    [] m.type = "redo"       -> canvasState'[c] = redoOperation(canvasState[c], c)
    [] m.type = "clear"      -> canvasState'[c] = clearCanvas(c)
    [] m.type = "stroke_end" -> canvasState'[c] = addStroke(canvasState[c], m.data, c)
    [] OTHER                 -> TRUE

C14_LocalApplyBeforeEmit ==
  [][\A c \in Clients : \A m \in net' \ net : m.userId = c => Applied(c, m)]_vars

\* C15: while the channel is disconnected (not yet subscribed, closed, or in
\* error) pointer-down, pointer-move, pointer-up, undo, redo and clear are
\* accepted and change the in-progress stroke and the canvasState exactly as
\* they do while connected; none is blocked or dropped.
LocalActionsTakeEffect(c) ==
  /\ \A p \in PointInputs :
       ENABLED (/\ PointerDown(c, p)
                /\ currentStroke'[c] # Null
                /\ currentStroke'[c].points = << p >>
                /\ currentStroke'[c].tool = settings[c].tool
                /\ canvasState'[c] = canvasState[c])
  /\ \A p \in PointInputs :
       (/\ dcDrawing[c]
        /\ hookDrawing[c]
        /\ seenStroke[c] # Null
        /\ Len(seenStroke[c].points) < MaxPoints
        /\ ~TooClose(p, lastPoint[c]))
       => ENABLED (/\ PointerMove(c, p)
                   /\ currentStroke'[c].points = Append(seenStroke[c].points, p)
                   /\ canvasState'[c] = canvasState[c])
  /\ dcDrawing[c] =>
       ENABLED (/\ PointerEnd(c)
                /\ currentStroke'[c] = Null
                /\ canvasState'[c] =
                     IF hookDrawing[c] /\ seenStroke[c] # Null /\ Len(seenStroke[c].points) >= 2
                     THEN addStroke(canvasState[c], seenStroke[c], c)
                     ELSE canvasState[c])
  /\ ENABLED (Undo(c) /\ canvasState'[c] = undoOperation(canvasState[c], c))
  /\ ENABLED (Redo(c) /\ canvasState'[c] = redoOperation(canvasState[c], c))
  /\ ENABLED (Clear(c) /\ canvasState'[c] = clearCanvas(c))

C15_DisconnectedDoesNotBlock ==
  \A c \in Clients : LocalActionsTakeEffect(c)

C15_Witness ==
  \E c \in Clients :
    /\ ~isConnected[c]
    /\ connectionError[c] # Null
    /\ dcDrawing[c]
    /\ seenStroke[c] # Null
    /\ Len(seenStroke[c].points) >= 2
    /\ canvasState[c].undoStack # <<>>
    /\ LocalActionsTakeEffect(c)

\* C16: an incoming message of unknown type, or of a known type with a
\* missing or ill-shaped payload, is dropped: the handler raises no error and
\* leaves the canvasState and the roster as they are.
\* A payload {} for stroke_end: every property of the stroke is undefined.
IllShapedStroke ==
  [id |-> Null, userId |-> Null, tool |-> Null, color |-> Null,
   strokeWidth |-> Null, points |-> Null]

MalformedMessages(d) ==
  { Msg("ping", d, NoData),
    Msg("stroke_end", d, IllShapedStroke),
    Msg("stroke_end", d, NoData),
    Msg("cursor_move", d, NoData) }

C16_MalformedDropped ==
  \A c \in Clients : \A d \in Clients \ {c} : \A m \in MalformedMessages(d) :
    /\ ~Raises(c, m)
    /\ Handle(c, m) = Unchanged(c)

\* C17: a client's canvasState starts empty and every later value is the
\* result of add, undo, redo or clear applied to the previous value; no
\* incoming message replaces the state with a snapshot supplied by a peer.
Snapshot(d) ==
  [strokes   |-> << MkStroke(<< d, 1 >>, d, << Pt(0, 0), Pt(2, 0) >>) >>,
   undoStack |-> <<>>,
   redoStack |-> <<>>]

\* the strokes some message offers to client c
OfferedStrokes(c) ==
  { m.data : m \in { n \in net : n.type = "stroke_end" } }
  \cup UNION { Range(Snapshot(d).strokes) : d \in Clients }

\* the states one operation leads to from the state of client c
OpResults(c) ==
  { canvasState[c], undoOperation(canvasState[c], c), redoOperation(canvasState[c], c),
    clearCanvas(c) }
  \cup { addStroke(canvasState[c], s, s.userId) : s \in OfferedStrokes(c) }

C17_OnlyOperationsChangeState ==
  \A c \in Clients :
    /\ \A m \in net : m.userId # c => Handle(c, m).cs \in OpResults(c)
    /\ \A d \in Clients \ {c} :
         Handle(c, Msg("sync_state", d, Snapshot(d))).cs \in OpResults(c)

\* C18: all clients of a room maintain the same ordered stroke history:
\* whenever every message published so far has been delivered to every peer,
\* all clients hold the same strokes sequence.
C18_SameStrokeHistory ==
  Quiescent => \A c, d \in Clients : canvasState[c].strokes = canvasState[d].strokes

\* C19: while drawing, every pointer-move whose point is recorded into the
\* in-progress stroke publishes a stroke_update for that stroke's id carrying
\* the points added since the previous update, so that the points of
\* stroke_start followed by those of the stroke_update messages are the points
\* of the final stroke_end.
UpdatesFor(c, id) ==
  { m \in net : m.type = "stroke_update" /\ m.userId = c /\ m.data.id = id }

C19_MovesEmitUpdates ==
  \A c \in Clients :
    /\ (currentStroke[c] # Null /\ Len(currentStroke[c].points) >= 2)
         => UpdatesFor(c, currentStroke[c].id) # {}
    /\ \A m \in net :
         (m.type = "stroke_end" /\ m.userId = c /\ Len(m.data.points) >= 2)
           => \E u \in UpdatesFor(c, m.data.id) :
                \E i \in 2..Len(m.data.points) : u.data.points = << m.data.points[i] >>

\* C20: a pointer-down starts a stroke and publishes stroke_start only when
\* the controller is idle; a pointer-down while a stroke is in progress does
\* not replace it.  So every stroke id has one stroke_start, and the stroke a
\* stroke_start announced is the one in progress until a pointer-up / leave
\* finalizes it.
Announced(c) == { m \in net : m.type = "stroke_start" /\ m.userId = c }

C20_PointerDownOnlyWhenIdle ==
  \A c \in Clients :
    /\ \A m, n \in Announced(c) : m.data.id = n.data.id => m = n
    /\ \A m \in Announced(c) :
         \/ currentStroke[c] # Null /\ currentStroke[c].id = m.data.id
         \/ \E e \in net : e.type = "stroke_end" /\ e.userId = c /\ e.data.id = m.data.id

\* C21: the connection state follows the status callbacks: SUBSCRIBED makes
\* the client connected, announces its presence and clears the error status;
\* CLOSED or CHANNEL_ERROR makes it disconnected with a non-empty status text;
\* nothing else changes the connection state.
StatusCallback(c) ==
  Subscribed(c) \/ \E status \in {"CLOSED", "CHANNEL_ERROR"} : Disconnected(c, status)

C21_ConnectionFollowsStatus ==
  [][\A c \in Clients :
       /\ Subscribed(c) =>
            /\ isConnected'[c]
            /\ connectionError'[c] = Null
            /\ [event |-> "join", user_id |-> c] \in presence'
       /\ \A status \in {"CLOSED", "CHANNEL_ERROR"} :
            Disconnected(c, status) =>
              /\ ~isConnected'[c]
              /\ connectionError'[c] # Null
              /\ connectionError'[c].message # ""
       /\ (isConnected'[c] # isConnected[c] \/ connectionError'[c] # connectionError[c])
            => StatusCallback(c)
    ]_vars

C21_Witness ==
  \E c \in Clients :
    /\ isConnected[c]
    /\ connectionError[c] = Null
    /\ [event |-> "join", user_id |-> c] \in presence
    /\ [event |-> "leave", user_id |-> c] \in presence

\* C22: a remote user's roster entry is created by a join event or by the
\* first cursor message of that user; every later cursor message of the user
\* replaces the entry's cursor position and isDrawing flag and touches no
\* other entry; after a leave event of the user is processed the roster has
\* no entry for it.
Roster == users[RosterClient]

OthersKept(before, after, u) ==
  SelectSeq(after, LAMBDA e : e.id # u) = SelectSeq(before, LAMBDA e : e.id # u)

AfterCursor(u, p, b) == Handle(RosterClient, CursorMsg(u, p, b)).us

C22_RosterLifecycle ==
  \A u \in RosterIds \ {RosterClient} :
    /\ HasUser(OnPresence(RosterClient, Roster, [event |-> "join", user_id |-> u]), u)
    /\ HasUser(Handle(RosterClient, Msg("user_join", u, JoinData(u))).us, u)
    /\ \A p \in PointInputs, b \in BOOLEAN :
         /\ HasUser(AfterCursor(u, p, b), u)
         /\ Len(AfterCursor(u, p, b)) = IF HasUser(Roster, u) THEN Len(Roster) ELSE Len(Roster) + 1
         /\ \A i \in 1..Len(AfterCursor(u, p, b)) :
              AfterCursor(u, p, b)[i].id = u =>
                /\ AfterCursor(u, p, b)[i].cursorPosition = p
                /\ AfterCursor(u, p, b)[i].isDrawing = b
         /\ \A i \in 1..Len(Roster) :
              /\ AfterCursor(u, p, b)[i].id = Roster[i].id
              /\ AfterCursor(u, p, b)[i].name = Roster[i].name
              /\ AfterCursor(u, p, b)[i].color = Roster[i].color
         /\ OthersKept(Roster, AfterCursor(u, p, b), u)
    /\ \A after \in { OnPresence(RosterClient, Roster, [event |-> "leave", user_id |-> u]),
                        Handle(RosterClient, Msg("user_leave", u, NoData)).us } :
         /\ ~HasUser(after, u)
         /\ OthersKept(Roster, after, u)

C22_Witness ==
  /\ Len(Roster) = 2
  /\ Roster[1].id = "B"
  /\ Roster[1].color = PresenceColor
  /\ Roster[1].cursorPosition = Pt(2, 0)
  /\ Roster[1].isDrawing = TRUE
  /\ Roster[2].id = "C"
  /\ Roster[2].name = "User 2"
  /\ Roster[2].cursorPosition = Pt(0, 0)

\* C23: local and remote paths cannot diverge: an add, undo, redo or clear
\* applied as a locally originated action, and the same operation applied as
\* a remote operation to the same canvasState, yield the same strokes,
\* undoStack and redoStack.
RemoteResult(d, state, m) == OnDrawing(d, state, <<>>, m).cs

C23_LocalRemoteAgree ==
  \A c \in Clients : \A d \in Clients \ {c} :
    /\ undoOperation(EngineState, c) = RemoteResult(d, EngineState, Msg("undo", c, NoData))
    /\ redoOperation(EngineState, c) = RemoteResult(d, EngineState, Msg("redo", c, NoData))
    /\ clearCanvas(c) = RemoteResult(d, EngineState, Msg("clear", c, NoData))
    /\ \A T \in StrokeInputs :
         T.userId = c =>
           LocalCommit(EngineState, T, c) = RemoteResult(d, EngineState, StrokeEndMsg(c, T))

\* C24: a session holds at most one subscribed channel at any time; when it
\* is dismounted, or its room or user changes, the channel is unsubscribed
\* before a new one is created; after teardown no local action publishes a
\* message.
C24_OneChannelPerSession ==
  [][\A c \in Clients :
       /\ Cardinality(liveChannels'[c]) <= 1
       /\ channelRef'[c] = Null => liveChannels'[c] = {}
       /\ channelRef'[c] # Null => liveChannels'[c] = {channelRef'[c]}
       /\ channelRef'[c] # channelRef[c] => channelRef[c] \notin liveChannels'[c]
       /\ channelRef[c] = Null => { m \in net' \ net : m.userId = c } = {}
    ]_vars

C24_Witness ==
  \E c \in Clients :
    /\ channelRef[c] = Null
    /\ liveChannels[c] = {}
    /\ canvasState[c].strokes # <<>>
    /\ { m \in net : m.userId = c /\ m.type = "stroke_end" } = {}
    /\ { m \in net : m.userId = c /\ m.type = "stroke_start" } # {}

\* C25: while drawing, a pointer-move point is recorded if and only if its
\* distance to the previously recorded point is at least the threshold;
\* hence in every in-progress or locally committed stroke any two
\* consecutive points are at least the threshold apart.
WellSpaced(points) ==
  \A i \in 1..(Len(points) - 1) : ~TooClose(points[i + 1], points[i])

C25_ConsecutivePointsApart ==
  \A c \in Clients :
    /\ currentStroke[c] # Null => WellSpaced(currentStroke[c].points)
    /\ \A i \in 1..Len(canvasState[c].strokes) :
         canvasState[c].strokes[i].userId = c => WellSpaced(canvasState[c].strokes[i].points)

\* C26: sequential convergence: with all clients in the room from the start
\* and the actions (pointer-down / move / up including taps, undo, redo,
\* clear) issued one at a time, each message delivered exactly once to the
\* peer before the next action, all clients hold the same strokes sequence
\* and undoStack and redoStack of the same lengths after each delivery.
C26_SequentialConvergence ==
  Quiescent =>
    \A c, d \in Clients :
      /\ canvasState[c].strokes = canvasState[d].strokes
      /\ Len(canvasState[c].undoStack) = Len(canvasState[d].undoStack)
      /\ Len(canvasState[c].redoStack) = Len(canvasState[d].redoStack)

\* C27: a local undo (or redo) that is a no-op on the invoking client because
\* its undoStack (redoStack) is empty does not change the canvasState of any
\* peer: the message such an undo or redo publishes leaves every peer's state
\* as it is.
C27_NoOpUndoStaysLocal ==
  \A c \in Clients : \A d \in Clients \ {c} :
    /\ canvasState[c].undoStack = <<>> =>
         \A m \in broadcast(c, {Msg("undo", c, NoData)}) : Handle(d, m).cs = canvasState[d]
    /\ canvasState[c].redoStack = <<>> =>
         \A m \in broadcast(c, {Msg("redo", c, NoData)}) : Handle(d, m).cs = canvasState[d]

\* C28: in every reachable state every undoStack entry is an add operation
\* carrying a stroke and every redoStack entry is an undo operation carrying a
\* stroke; an effective undo or redo moves exactly one entry between the two
\* stacks, so |undoStack| + |redoStack| is unchanged by undo and redo.
HistorySize(state) == Len(state.undoStack) + Len(state.redoStack)

Top(stack) == stack[Len(stack)]

C28_HistoryShape ==
  /\ \A i \in 1..Len(EngineState.undoStack) :
       EngineState.undoStack[i].type = "add" /\ EngineState.undoStack[i].stroke # Null
  /\ \A i \in 1..Len(EngineState.redoStack) :
       EngineState.redoStack[i].type = "undo" /\ EngineState.redoStack[i].stroke # Null
  /\ last.op \in {"undo", "redo"} => HistorySize(EngineState) = HistorySize(last.pre)
  /\ (last.op = "undo" /\ last.pre.undoStack # <<>>) =>
       /\ Len(EngineState.undoStack) = Len(last.pre.undoStack) - 1
       /\ Len(EngineState.redoStack) = Len(last.pre.redoStack) + 1
       /\ Top(EngineState.redoStack).stroke = Top(last.pre.undoStack).stroke
  /\ (last.op = "redo" /\ last.pre.redoStack # <<>>) =>
       /\ Len(EngineState.redoStack) = Len(last.pre.redoStack) - 1
       /\ Len(EngineState.undoStack) = Len(last.pre.undoStack) + 1
       /\ Top(EngineState.undoStack).stroke = Top(last.pre.redoStack).stroke

C28_Witness ==
  /\ last.op = "redo"
  /\ Len(last.pre.redoStack) = 2
  /\ Len(EngineState.undoStack) = 2
  /\ Len(EngineState.redoStack) = 1

\* C30: in every reachable state the roster holds at most one entry per user
\* id and never the local client's own id, whatever the order and the number
\* of copies in which join, leave and cursor messages arrive.
OneEntryPerUser(us) == \A i, j \in 1..Len(us) : us[i].id = us[j].id => i = j

C30_RosterUnique ==
  \A c \in Clients : OneEntryPerUser(users[c]) /\ ~HasUser(users[c], c)

\* both peers are listed, the second through presence and then moved by a cursor message
C30_Witness ==
  /\ Len(Roster) = 2
  /\ Roster[1].id = "C"
  /\ Roster[2].id = "B"
  /\ Roster[2].name = PresenceUser("B").name
  /\ Roster[2].cursorPosition = Pt(2, 0)

\* C29: a remote operation (stroke_end, undo, redo, clear, cursor_move, join,
\* leave) processed while the local user is mid-stroke leaves the in-progress
\* stroke, the drawing flag and the drawing settings unchanged; a stroke in
\* progress when a remote clear arrives is still committed to the local
\* strokes on pointer-up.
RemoteStep == last' # last

ClearedMidStroke ==
  /\ last.op = "remote"
  /\ last.arg.type = "clear"
  /\ last.pre.isDrawing
  /\ currentStroke[MidStrokeClient] # Null
  /\ last.pre.currentStroke.id = currentStroke[MidStrokeClient].id

PointerUpStep ==
  hookDrawing[MidStrokeClient] /\ ~hookDrawing'[MidStrokeClient]

C29_MidStrokeUntouched ==
  [][ /\ RemoteStep =>
           /\ currentStroke' = currentStroke
           /\ hookDrawing' = hookDrawing
           /\ settings' = settings
      /\ (ClearedMidStroke /\ PointerUpStep
            /\ Len(currentStroke[MidStrokeClient].points) >= 2) =>
           currentStroke[MidStrokeClient].id \in Ids(canvasState'[MidStrokeClient].strokes)
    ]_vars

\* C31: once the leave event of user U has been handled, U is not in the
\* roster again until a join event of U is handled, also when a cursor
\* message U sent before leaving is handled after the leave event.
C31_LeftStaysOut ==
  last.op = "leave" => ~HasUser(users[Watcher], last.arg.user_id)

\* C32: the points of a finalized stroke are the pointer-down point followed
\* by every pointer-move point that passed the distance filter, in input
\* order.  Stated step by step: a pointer-down starts the stroke with its
\* point, every accepted pointer-move appends its point to the points the
\* stroke already holds, and the pointer-up commits the stroke with all the
\* points it holds; also when several pointer events are handled between two
\* renders.
DownStep(c) == idCounter'[c] # idCounter[c]

AcceptedMoveStep(c) ==
  /\ ~DownStep(c)
  /\ dcDrawing[c] /\ dcDrawing'[c]
  /\ currentStroke[c] # Null
  /\ lastPoint'[c] # lastPoint[c]

EndStep(c) ==
  /\ dcDrawing[c] /\ ~dcDrawing'[c]
  /\ currentStroke[c] # Null
  /\ Len(currentStroke[c].points) >= 2

C32_AcceptedPointsKept ==
  [][ \A c \in Clients :
        /\ DownStep(c) => currentStroke'[c].points = << lastPoint'[c] >>
        /\ AcceptedMoveStep(c) =>
             /\ currentStroke'[c] # Null
             /\ currentStroke'[c].points = Append(currentStroke[c].points, lastPoint'[c])
        /\ EndStep(c) =>
             /\ canvasState'[c].strokes # << >>
             /\ Top(canvasState'[c].strokes).id = currentStroke[c].id
             /\ Top(canvasState'[c].strokes).points = currentStroke[c].points
    ]_vars

====
